---------------------------- MODULE Spec2Model ----------------------------
(***************************************************************************)
(* Model of the compensation simulators of src/streamlit_app.py:           *)
(*   - the operations simulator (SIM_ROLES_OP, build_simulador_operaciones)*)
(*   - the consultant lookups (pct_sv_por_unidades,                        *)
(*     anticipo_usd_por_inmueble, bono_trimestral_consultor)               *)
(*   - the consultant month computation (calc_month)                       *)
(*                                                                         *)
(* Conventions.                                                            *)
(*   Strings are written without accents ("Comision" for "Comisión").      *)
(*   A float percentage entered as 0..1 (step 0.01) is held in hundredths  *)
(*   (0.90 is 90).  Money amounts of the operations simulator are whole    *)
(*   numbers, as in the source.  The float arithmetic of calc_month is     *)
(*   done on exact fractions (see the section on the consultant month).    *)
(*                                                                         *)
(* Three specifications share the variables:                               *)
(*   Spec        the operations simulator (op_ variables)                  *)
(*   SpecLookup  one consultant lookup applied to a pair of keys (lk_)     *)
(*   SpecCom     the commercial simulator (com_ variables)                 *)
(* each leaving the variables of the other two at their initial values.    *)
(***************************************************************************)
EXTENDS Integers, Sequences, FiniteSets, TLC

VARIABLES
    op_cargo,     \* st.selectbox "Cargo (Operaciones)"
    op_x,         \* the dict render_inputs returns: key -> value
    op_calc,      \* TRUE in the run in which "Calcular (Operaciones)" was pressed
    op_gate_ok,   \* gate_ok of that run
    op_res,       \* res of that run (line -> amount, "Total estimado" included)
    op_failed_before, \* history: an evaluation of op_cargo has failed its gate
                  \* since the role was picked (kept by no object of the program)
    lk_fn,        \* the lookup under study: "pct", "bono", "anticipo" or "vivecasa"
    lk_role,      \* its role argument (pct, bono)
    lk_n1,        \* its key, a unit count or a point total (pct, bono)
    lk_n2,        \* a second key, lk_n1 <= lk_n2, looked up beside the first
    lk_flags,     \* <<cumple_creacion, cumple_efectivos>> (bono)
    lk_v1,        \* its key, a property value (anticipo)
    lk_v2,        \* a second property value, lk_v1 <= lk_v2
    lk_done,      \* TRUE once the lookup has been applied
    lk_r1,        \* the result for the first key
    lk_r2,        \* the result for the second key
    com_w,        \* the widgets of the commercial simulator: <<prefix, key>> -> value
    com_calc,     \* TRUE in the run in which "Calcular (Comercial)" was pressed
    com_out       \* r1, r2, r3, puntos_trim, bono_trim_usd, total_trim_usd of that run

op_vars == <<op_cargo, op_x, op_calc, op_gate_ok, op_res, op_failed_before>>

lk_vars == <<lk_fn, lk_role, lk_n1, lk_n2, lk_flags, lk_v1, lk_v2, lk_done, lk_r1, lk_r2>>

com_vars == <<com_w, com_calc, com_out>>

vars == <<op_vars, lk_vars, com_vars>>

-----------------------------------------------------------------------------
(* Bounds of the explored inputs *)

\* how many units above a threshold the integer inputs are explored
MaxOver == 2

\* the largest count entered in the count widgets of a month block
MaxUnits == 3

-----------------------------------------------------------------------------
(* calc_excedente, calc_por_unidad, gate_all_ok *)

Max(a, b) == IF a >= b THEN a ELSE b

\* calc_excedente without the floor at 0
calc_excedente_NoFloor(n, minimo, valor_unidad) == (n - minimo) * valor_unidad

calc_excedente(n, minimo, valor_unidad) == Max(n - minimo, 0) * valor_unidad

calc_por_unidad(n, valor_unidad) == Max(n, 0) * valor_unidad

\* all(bool(v) for v in gates.values()); gates is a set of booleans here
gate_all_ok(gates) == \A v \in gates : v

GER_DES_META_100 ==
    [Enero |-> 278, Febrero |-> 298, Marzo |-> 338, Abril |-> 316,
     Mayo |-> 318, Junio |-> 297, Julio |-> 350, Agosto |-> 330,
     Septiembre |-> 360, Octubre |-> 350, Noviembre |-> 342, Diciembre |-> 338]

GER_DES_META_95 ==
    [Enero |-> 264, Febrero |-> 283, Marzo |-> 321, Abril |-> 300,
     Mayo |-> 302, Junio |-> 282, Julio |-> 333, Agosto |-> 314,
     Septiembre |-> 342, Octubre |-> 333, Noviembre |-> 325, Diciembre |-> 321]

GER_ANALISIS_100 == [Q1 |-> 405, Q2 |-> 440, Q3 |-> 500, Q4 |-> 575]

GER_ANALISIS_95 == [Q1 |-> 385, Q2 |-> 418, Q3 |-> 475, Q4 |-> 546]

Meses == {"Enero", "Febrero", "Marzo", "Abril", "Mayo", "Junio", "Julio",
          "Agosto", "Septiembre", "Octubre", "Noviembre", "Diciembre"}

Trimestres == {"Q1", "Q2", "Q3", "Q4"}

-----------------------------------------------------------------------------
(* SIM_ROLES_OP: the inputs of each role, <<key, type, default>> *)

GestorInputs ==
    << <<"aprob_mes", "int", 0>>, <<"aprob_trim", "int", 0>>,
       <<"garantia", "bool", TRUE>> >>

AnalistaInputs ==
    << <<"aprob_mes", "int", 0>>, <<"carpetas_3dias", "float", 90>>,
       <<"radicado_ok", "float", 90>> >>

SIM_ROLES_OP_inputs ==
    [ GestorUPF      |-> GestorInputs,
      GestorConv     |-> GestorInputs,
      GestorFNA      |-> GestorInputs,
      GestorNueva    |-> GestorInputs,
      AnalistaII     |-> AnalistaInputs,
      AnalistaIII    |-> AnalistaInputs,
      LiderAnalisis  |-> AnalistaInputs,
      AnalistaLegal  |-> << <<"desem_mes", "int", 0>>, <<"monitoreo", "float", 95>>,
                            <<"ans", "float", 90>>, <<"prod_notas", "float", 90>>,
                            <<"act_t1", "int", 0>>, <<"act_t2", "int", 0>> >>,
      LiderDesem     |-> << <<"desem_mes", "int", 0>>, <<"monitoreo", "float", 95>>,
                            <<"ans", "float", 90>>, <<"prod_notas", "float", 90>> >>,
      GerenteDesem   |-> << <<"mes", "select", "Enero">>, <<"desem_mes", "int", 0>> >>,
      LiderConvenios |-> << <<"aprob_mes", "int", 0>>, <<"trim", "select", "Q1">>,
                            <<"aprob_trim", "int", 0>>, <<"reviews_trim", "int", 0>> >>,
      LiderUsada     |-> << <<"aprob_mes", "int", 0>>, <<"aprob_trim", "int", 0>>,
                            <<"reviews_trim", "int", 0>> >>,
      LiderNueva     |-> << <<"aprob_mes_total", "int", 0>>,
                            <<"aprob_mes_vivecasas", "int", 0>>,
                            <<"aprob_mes_nuevas", "int", 0>>,
                            <<"aprob_trim", "int", 0>>, <<"reviews_trim", "int", 0>> >>,
      GerenteAnalisis |-> << <<"trim", "select", "Q1">>, <<"aprob_mes", "int", 0>> >> ]

\* list(SIM_ROLES_OP.keys()).  The identifiers stand for the role titles:
\*   GestorUPF "Gestor de Credito - UPF", GestorConv "... - Convenios/Vivecasas",
\*   GestorFNA "... - FNA", GestorNueva "... - Nueva/Usada",
\*   AnalistaII / AnalistaIII "Analista de Credito II / III",
\*   LiderAnalisis "Lider de Analisis de Credito",
\*   AnalistaLegal "Analista de Legalizacion", LiderDesem "Lider de Desembolsos",
\*   GerenteDesem "Gerente de Desembolso y Exito del Cliente",
\*   LiderConvenios "Lider de Convenios", LiderUsada "Lider de Vivienda Usada y UPF",
\*   LiderNueva "Lider de Vivienda Nueva y Vivecasas",
\*   GerenteAnalisis "Gerente de Analisis y Gestion de Credito"
Cargos == DOMAIN SIM_ROLES_OP_inputs

InputKeys(cargo) ==
    { SIM_ROLES_OP_inputs[cargo][i][1] : i \in DOMAIN SIM_ROLES_OP_inputs[cargo] }

InputItem(cargo, key) ==
    LET inputs == SIM_ROLES_OP_inputs[cargo]
    IN  inputs[CHOOSE i \in DOMAIN inputs : inputs[i][1] = key]

\* render_inputs on a first run: every widget at its default
DefaultInputs(cargo) == [key \in InputKeys(cargo) |-> InputItem(cargo, key)[3]]


-----------------------------------------------------------------------------
(* SIM_ROLES_OP: "calc", "gate" and "gate_scope" of each role *)

\* the quarterly bonus of a Gestor paid only with the guarantee constituted
BonoTrimestral_WithGarantia(x, meta) ==
    IF x["aprob_trim"] >= meta /\ x["garantia"] THEN 500000 ELSE 0

\* "Bono trimestral": 500_000 if x["aprob_trim"] >= meta else 0
BonoTrimestral(x, meta) == IF x["aprob_trim"] >= meta THEN 500000 ELSE 0

\* role_def["calc"](x): line name -> amount
SIM_ROLES_OP_calc(cargo, x) ==
    CASE cargo = "GestorUPF" ->
            ("Comision mensual" :> calc_excedente(x["aprob_mes"], 4, 125000))
         @@ ("Bono trimestral" :> BonoTrimestral(x, 25))
      [] cargo = "GestorConv" ->
            ("Comision mensual" :> calc_excedente(x["aprob_mes"], 10, 125000))
         @@ ("Bono trimestral" :> BonoTrimestral(x, 50))
      [] cargo = "GestorFNA" ->
            ("Comision mensual" :> calc_por_unidad(x["aprob_mes"], 125000))
         @@ ("Bono trimestral" :> BonoTrimestral(x, 20))
      [] cargo = "GestorNueva" ->
            ("Comision mensual" :> calc_excedente(x["aprob_mes"], 15, 125000))
         @@ ("Bono trimestral" :> BonoTrimestral(x, 70))
      [] cargo = "AnalistaII" ->
            ("Comision mensual" :> calc_excedente(x["aprob_mes"], 40, 25000))
      [] cargo = "AnalistaIII" ->
            ("Comision mensual" :> calc_excedente(x["aprob_mes"], 60, 25000))
      [] cargo = "LiderAnalisis" ->
            ("Comision mensual" :> calc_excedente(x["aprob_mes"], 350, 10000))
      [] cargo = "AnalistaLegal" ->
            ("Comision desembolsos" :> calc_excedente(x["desem_mes"], 20, 75000))
         @@ ("Actualizaciones" :> (x["act_t1"] * 30000) + (x["act_t2"] * 50000))
      [] cargo = "LiderDesem" ->
            ("Comision mensual" :> calc_excedente(x["desem_mes"], 250, 10000))
      [] cargo = "GerenteDesem" ->
            LET mes == x["mes"]
                n   == x["desem_mes"]
            IN  ("Fijo mensual" :> 10000000)
             @@ ("Variable mensual" :>
                    (IF n >= GER_DES_META_100[mes] THEN 2000000
                     ELSE IF n >= GER_DES_META_95[mes] THEN 1250000 ELSE 0))
      [] cargo = "LiderConvenios" ->
            ("Comision mensual (aprob)" :> (IF x["aprob_mes"] >= 85 THEN 1000000 ELSE 0))
         @@ ("Bono trimestral (aprob)" :>
                (IF \/ (x["trim"] = "Q1" /\ x["aprob_trim"] >= 250)
                    \/ (x["trim"] = "Q2" /\ x["aprob_trim"] >= 275)
                    \/ (x["trim"] = "Q3" /\ x["aprob_trim"] >= 275)
                    \/ (x["trim"] = "Q4" /\ x["aprob_trim"] >= 300)
                 THEN 1000000 ELSE 0))
         @@ ("Bono trimestral (reviews)" :> (IF x["reviews_trim"] >= 250 THEN 500000 ELSE 0))
      [] cargo = "LiderUsada" ->
            ("Comision mensual (aprob)" :> (IF x["aprob_mes"] >= 120 THEN 1000000 ELSE 0))
         @@ ("Bono trimestral (aprob)" :> (IF x["aprob_trim"] >= 325 THEN 1000000 ELSE 0))
         @@ ("Bono trimestral (reviews)" :> (IF x["reviews_trim"] >= 325 THEN 500000 ELSE 0))
      [] cargo = "LiderNueva" ->
            ("Comision mensual (aprob)" :>
                (IF x["aprob_mes_total"] >= 200 THEN 1000000
                 ELSE IF x["aprob_mes_vivecasas"] > 60 \/ x["aprob_mes_nuevas"] > 140
                      THEN 500000 ELSE 0))
         @@ ("Bono trimestral (aprob)" :> (IF x["aprob_trim"] >= 575 THEN 1000000 ELSE 0))
         @@ ("Bono trimestral (reviews)" :> (IF x["reviews_trim"] >= 500 THEN 500000 ELSE 0))
      [] cargo = "GerenteAnalisis" ->
            LET q == x["trim"]
                n == x["aprob_mes"]
            IN  ("Variable mensual" :>
                    (IF n >= GER_ANALISIS_100[q] THEN 700
                     ELSE IF n >= GER_ANALISIS_95[q] THEN 450 ELSE 0))

\* role_def["gate"](x)
SIM_ROLES_OP_gate(cargo, x) ==
    CASE cargo \in {"GestorUPF", "GestorConv", "GestorFNA", "GestorNueva"} ->
            x["garantia"]
      [] cargo \in {"AnalistaII", "AnalistaIII", "LiderAnalisis"} ->
            gate_all_ok({x["carpetas_3dias"] >= 90, x["radicado_ok"] >= 90})
      [] cargo \in {"AnalistaLegal", "LiderDesem"} ->
            gate_all_ok({x["monitoreo"] >= 95, x["ans"] >= 90, x["prod_notas"] >= 90})
      [] OTHER -> TRUE

\* role_def.get("gate_scope", "all")
SIM_ROLES_OP_gate_scope(cargo) ==
    IF cargo = "AnalistaLegal" THEN "desem_only" ELSE "all"

-----------------------------------------------------------------------------
(* k.lower().startswith("fijo") *)

\* the first four characters of each payout line name of SIM_ROLES_OP
LineHead(k) ==
    CASE k = "Fijo mensual" -> <<"F", "i", "j", "o">>
      [] k \in {"Comision mensual", "Comision desembolsos",
                "Comision mensual (aprob)"} -> <<"C", "o", "m", "i">>
      [] k \in {"Bono trimestral", "Bono trimestral (aprob)",
                "Bono trimestral (reviews)"} -> <<"B", "o", "n", "o">>
      [] k = "Actualizaciones" -> <<"A", "c", "t", "u">>
      [] k = "Variable mensual" -> <<"V", "a", "r", "i">>

\* str.lower() on one character
LowerChar(c) ==
    CASE c = "A" -> "a" [] c = "B" -> "b" [] c = "C" -> "c"
      [] c = "F" -> "f" [] c = "V" -> "v" [] OTHER -> c

StartsWithFijo(k) ==
    [i \in 1..4 |-> LowerChar(LineHead(k)[i])] = <<"f", "i", "j", "o">>

-----------------------------------------------------------------------------
(* build_simulador_operaciones: the body of the "Calcular" button *)

RECURSIVE SumOver(_, _)
\* sum(float(v) for v in res.values() ...): every value is numeric
SumOver(f, S) ==
    IF S = {} THEN 0
    ELSE LET k == CHOOSE k \in S : TRUE IN f[k] + SumOver(f, S \ {k})

\* ApplyGate zeroing the monthly commission alone, whatever the scope
ApplyGate_OnlyCommission(cargo, gate_ok, raw) ==
    IF gate_ok THEN raw
    ELSE [k \in DOMAIN raw |-> IF LineHead(k) = <<"C", "o", "m", "i">> THEN 0 ELSE raw[k]]

\* ApplyGate without the "desem_only" branch
ApplyGate_IgnoreScope(cargo, gate_ok, raw) ==
    IF gate_ok THEN raw
    ELSE [k \in DOMAIN raw |-> IF StartsWithFijo(k) THEN raw[k] ELSE 0]

\* the zeroing of res after a failed gate (source lines 478-486)
ApplyGate(cargo, gate_ok, raw) ==
    LET scope == SIM_ROLES_OP_gate_scope(cargo)
    IN  IF gate_ok THEN raw
        ELSE IF scope = "desem_only" /\ "Comision desembolsos" \in DOMAIN raw
             THEN [raw EXCEPT !["Comision desembolsos"] = 0]
             ELSE [k \in DOMAIN raw |-> IF StartsWithFijo(k) THEN raw[k] ELSE 0]

\* res["Total estimado"] = total
WithTotal(res) == res @@ ("Total estimado" :> SumOver(res, DOMAIN res))

\* Evaluate with the total taken before the gate is applied
Evaluate_TotalOfRaw(cargo, x) ==
    LET raw == SIM_ROLES_OP_calc(cargo, x)
    IN  ApplyGate(cargo, SIM_ROLES_OP_gate(cargo, x), raw)
            @@ ("Total estimado" :> SumOver(raw, DOMAIN raw))

\* the evaluation on a result whose lines, once zeroed by a failed gate of the
\* role, stay zeroed in the evaluations that follow
Evaluate_ZeroesStay(cargo, x) ==
    WithTotal(ApplyGate(cargo, SIM_ROLES_OP_gate(cargo, x) /\ ~op_failed_before,
                        SIM_ROLES_OP_calc(cargo, x)))

Evaluate(cargo, x) ==
    WithTotal(ApplyGate(cargo, SIM_ROLES_OP_gate(cargo, x), SIM_ROLES_OP_calc(cargo, x)))

-----------------------------------------------------------------------------
(* The inputs explored: what st.number_input / checkbox / selectbox can     *)
(* return, cut down to values around the thresholds of the role.            *)

\* the thresholds an integer input of a role is compared with
IntPivots(cargo, key) ==
    CASE cargo = "GestorUPF" /\ key = "aprob_mes" -> {4}
      [] cargo = "GestorUPF" /\ key = "aprob_trim" -> {25}
      [] cargo = "GestorConv" /\ key = "aprob_mes" -> {10}
      [] cargo = "GestorConv" /\ key = "aprob_trim" -> {50}
      [] cargo = "GestorFNA" /\ key = "aprob_mes" -> {1}
      [] cargo = "GestorFNA" /\ key = "aprob_trim" -> {20}
      [] cargo = "GestorNueva" /\ key = "aprob_mes" -> {15}
      [] cargo = "GestorNueva" /\ key = "aprob_trim" -> {70}
      [] cargo = "AnalistaII" /\ key = "aprob_mes" -> {40}
      [] cargo = "AnalistaIII" /\ key = "aprob_mes" -> {60}
      [] cargo = "LiderAnalisis" /\ key = "aprob_mes" -> {350}
      [] cargo = "AnalistaLegal" /\ key = "desem_mes" -> {20}
      [] cargo = "LiderDesem" /\ key = "desem_mes" -> {250}
      [] cargo = "GerenteDesem" /\ key = "desem_mes" ->
            {GER_DES_META_100[m] : m \in Meses} \cup {GER_DES_META_95[m] : m \in Meses}
      [] cargo = "LiderConvenios" /\ key = "aprob_mes" -> {85}
      [] cargo = "LiderConvenios" /\ key = "aprob_trim" -> {250, 275, 300}
      [] cargo = "LiderConvenios" /\ key = "reviews_trim" -> {250}
      [] cargo = "LiderUsada" /\ key = "aprob_mes" -> {120}
      [] cargo = "LiderUsada" /\ key \in {"aprob_trim", "reviews_trim"} -> {325}
      [] cargo = "LiderNueva" /\ key = "aprob_mes_total" -> {200}
      [] cargo = "LiderNueva" /\ key = "aprob_mes_vivecasas" -> {60}
      [] cargo = "LiderNueva" /\ key = "aprob_mes_nuevas" -> {140}
      [] cargo = "LiderNueva" /\ key = "aprob_trim" -> {575}
      [] cargo = "LiderNueva" /\ key = "reviews_trim" -> {500}
      [] cargo = "GerenteAnalisis" /\ key = "aprob_mes" ->
            {GER_ANALISIS_100[q] : q \in Trimestres} \cup {GER_ANALISIS_95[q] : q \in Trimestres}
      [] OTHER -> {1}

\* the values of one widget (min_value=0 for numbers, the options of a select)
InputValues(cargo, key) ==
    LET item == InputItem(cargo, key)
        typ  == item[2]
    IN  CASE typ = "int" ->
                {0} \cup UNION { (t - 1)..(t + MaxOver) : t \in IntPivots(cargo, key) }
          [] typ = "float" -> {item[3] - 1, item[3], 100}
          [] typ = "bool" -> BOOLEAN
          [] typ = "select" -> IF key = "mes" THEN Meses ELSE Trimestres

-----------------------------------------------------------------------------
(* The consultant lookups: CONSULTOR_SV_PCTS, pct_sv_por_unidades,          *)
(* anticipo_usd_por_inmueble, bono_trimestral_consultor.                    *)
(* Percentages are in hundredths (0.35 is 35); the USD amounts the lookups  *)
(* return are whole (220.0 is 220).                                         *)

ConsultorRoles == {"Consultor - Aprendiz", "Consultor - Emprendedor", "Consultor - Experto"}

\* (lo, hi, pct) per role; 10**9 closes the last range
CONSULTOR_SV_PCTS ==
       ("Consultor - Aprendiz" :>
            << <<1, 4, 35>>, <<5, 9, 50>>, <<10, 14, 60>>, <<15, 1000000000, 75>> >>)
    @@ ("Consultor - Emprendedor" :>
            << <<1, 7, 45>>, <<8, 11, 60>>, <<12, 1000000000, 75>> >>)
    @@ ("Consultor - Experto" :>
            << <<1, 9, 50>>, <<10, 13, 70>>, <<14, 1000000000, 75>> >>)

RECURSIVE FirstMatch(_, _, _)
\* for lo, hi, pct in table: if lo <= units <= hi: return pct;  return 0.0
FirstMatch(table, i, units) ==
    IF i > Len(table) THEN 0
    ELSE IF table[i][1] <= units /\ units <= table[i][2] THEN table[i][3]
    ELSE FirstMatch(table, i + 1, units)

pct_sv_por_unidades(role, units) ==
    IF units <= 0 THEN 0 ELSE FirstMatch(CONSULTOR_SV_PCTS[role], 1, units)

\* float <= int and int <= float, for a float given as whole + half
FloatLeInt(v, c) == v.w < c \/ (v.w = c /\ ~v.h)

IntLeFloat(c, v) == c <= v.w

\* anticipo_usd_por_inmueble with the first band open at its upper end
anticipo_usd_por_inmueble_OpenUpper(valor_cop) ==
    IF FloatLeInt(valor_cop, 0) THEN 0
    ELSE IF IntLeFloat(90000000, valor_cop) /\ valor_cop.w < 270000000 THEN 220
    ELSE IF IntLeFloat(270000001, valor_cop) /\ FloatLeInt(valor_cop, 480000000) THEN 420
    ELSE IF IntLeFloat(480000001, valor_cop) /\ FloatLeInt(valor_cop, 600000000) THEN 650
    ELSE IF IntLeFloat(600000001, valor_cop) THEN 950
    ELSE 0

\* anticipo_usd_por_inmueble with the values under 90M given the first band
anticipo_usd_por_inmueble_LowToFirst(valor_cop) ==
    IF FloatLeInt(valor_cop, 0) THEN 0
    ELSE IF FloatLeInt(valor_cop, 270000000) THEN 220
    ELSE IF IntLeFloat(270000001, valor_cop) /\ FloatLeInt(valor_cop, 480000000) THEN 420
    ELSE IF IntLeFloat(480000001, valor_cop) /\ FloatLeInt(valor_cop, 600000000) THEN 650
    ELSE IF IntLeFloat(600000001, valor_cop) THEN 950
    ELSE 0

anticipo_usd_por_inmueble(valor_cop) ==
    IF FloatLeInt(valor_cop, 0) THEN 0
    ELSE IF IntLeFloat(90000000, valor_cop) /\ FloatLeInt(valor_cop, 270000000) THEN 220
    ELSE IF IntLeFloat(270000001, valor_cop) /\ FloatLeInt(valor_cop, 480000000) THEN 420
    ELSE IF IntLeFloat(480000001, valor_cop) /\ FloatLeInt(valor_cop, 600000000) THEN 650
    ELSE IF IntLeFloat(600000001, valor_cop) THEN 950
    ELSE 0

\* BonoBrackets with "puntos > 351" (> 401, > 491) for the upper bracket
BonoBrackets_LateUpper(role, puntos) ==
    CASE role = "Consultor - Aprendiz" ->
            IF 250 <= puntos /\ puntos <= 350 THEN 1500
            ELSE IF puntos > 351 THEN 1800 ELSE 0
      [] role = "Consultor - Emprendedor" ->
            IF 350 <= puntos /\ puntos <= 400 THEN 2200
            ELSE IF puntos > 401 THEN 2500 ELSE 0
      [] role = "Consultor - Experto" ->
            IF 400 <= puntos /\ puntos <= 490 THEN 2500
            ELSE IF puntos > 491 THEN 2800 ELSE 0
      [] OTHER -> 0

\* the bracket lookup of bono_trimestral_consultor once the flags have passed
BonoBrackets(role, puntos) ==
    CASE role = "Consultor - Aprendiz" ->
            IF 250 <= puntos /\ puntos <= 350 THEN 1500
            ELSE IF puntos >= 351 THEN 1800 ELSE 0
      [] role = "Consultor - Emprendedor" ->
            IF 350 <= puntos /\ puntos <= 400 THEN 2200
            ELSE IF puntos >= 401 THEN 2500 ELSE 0
      [] role = "Consultor - Experto" ->
            IF 400 <= puntos /\ puntos <= 490 THEN 2500
            ELSE IF puntos >= 491 THEN 2800 ELSE 0
      [] OTHER -> 0

\* bono_trimestral_consultor testing "not (a or b)" in place of "not (a and b)"
bono_trimestral_consultor_EitherFlag(role, puntos, cumple_creacion, cumple_efectivos) ==
    IF ~(cumple_creacion \/ cumple_efectivos) THEN 0 ELSE BonoBrackets(role, puntos)

bono_trimestral_consultor(role, puntos, cumple_creacion, cumple_efectivos) ==
    IF ~(cumple_creacion /\ cumple_efectivos) THEN 0 ELSE BonoBrackets(role, puntos)

-----------------------------------------------------------------------------
(* The consultant month: CONSULTOR_VARADOS_USD, VIVECASA_PCT,               *)
(* vivecasa_bracket, bono_bolivar_usd, calc_month.                          *)
(*                                                                          *)
(* The floats of calc_month are held as exact fractions:                    *)
(*   - desc_sv and pct_sv in hundredths, tarifa_sv_neta in hundredths of a  *)
(*     USD, com_sv_usd in ten-thousandths of a USD;                          *)
(*   - the VIVECASA_PCT rates in ten-thousandths (0.0052 is 52) and a COP   *)
(*     amount as [int, frac]: int COP and frac ten-thousandths of a COP;     *)
(*   - an amount divided by the TRM as [num, den]: the COP amount num over   *)
(*     den = trm;                                                            *)
(*   - total_mes_usd as [usd4, num, den]: usd4 / 10000 + num / den USD.      *)

CONSULTOR_VARADOS_USD ==
       ("Consultor - Aprendiz" :> 60)
    @@ ("Consultor - Emprendedor" :> 60)
    @@ ("Consultor - Experto" :> 100)

VIVECASA_PCT ==
    [ A   |-> ("1" :> 52)  @@ ("2_3" :> 55)  @@ ("4p" :> 56),
      AA  |-> ("1" :> 79)  @@ ("2_3" :> 83)  @@ ("4p" :> 85),
      AAA |-> ("1" :> 131) @@ ("2_3" :> 138) @@ ("4p" :> 141) ]

\* vivecasa_bracket testing "total_units < 0": no units fall in bracket "1"
vivecasa_bracket_ZeroAsOne(total_units) ==
    IF total_units < 0 THEN "0"
    ELSE IF total_units <= 1 THEN "1"
    ELSE IF total_units \in {2, 3} THEN "2_3"
    ELSE "4p"

vivecasa_bracket(total_units) ==
    IF total_units <= 0 THEN "0"
    ELSE IF total_units = 1 THEN "1"
    ELSE IF total_units \in {2, 3} THEN "2_3"
    ELSE "4p"

\* VIVECASA_PCT[cat].get(bracket, 0.0)
VivecasaPctGet(cat, bracket) ==
    IF bracket \in DOMAIN VIVECASA_PCT[cat] THEN VIVECASA_PCT[cat][bracket] ELSE 0

\* pct_a, pct_aa, pct_aaa of calc_month for a total of property units
VivecasaPcts(total_vc_units) ==
    LET bracket == vivecasa_bracket(total_vc_units)
    IN  [ A   |-> VivecasaPctGet("A", bracket),
          AA  |-> VivecasaPctGet("AA", bracket),
          AAA |-> VivecasaPctGet("AAA", bracket) ]

bono_bolivar_usd(n_bolivar) ==
    IF n_bolivar = 2 THEN 300
    ELSE IF n_bolivar >= 3 THEN 500
    ELSE 0

CopZero == [int |-> 0, frac |-> 0]

\* units * valor * pct for pct in ten-thousandths, as a COP amount
CopProduct(units, valor, pct) ==
    LET k   == units * pct
        low == (valor % 10000) * k
    IN  [int |-> (valor \div 10000) * k + (low \div 10000), frac |-> low % 10000]

CopAdd(a, b) ==
    LET f == a.frac + b.frac
    IN  [int |-> a.int + b.int + (f \div 10000), frac |-> f % 10000]

\* saldo_vc_usd without the floor at 0.0
SaldoVc_NoFloor(com_vc_usd, anticipo_total_usd) ==
    [num |-> [int  |-> com_vc_usd.num.int - anticipo_total_usd * com_vc_usd.den,
              frac |-> com_vc_usd.num.frac],
     den |-> com_vc_usd.den]

\* max(com_vc_usd - anticipo_total_usd, 0.0), for com_vc_usd = num / den
SaldoVc(com_vc_usd, anticipo_total_usd) ==
    IF com_vc_usd.num.int >= anticipo_total_usd * com_vc_usd.den
    THEN [num |-> [int  |-> com_vc_usd.num.int - anticipo_total_usd * com_vc_usd.den,
                   frac |-> com_vc_usd.num.frac],
          den |-> com_vc_usd.den]
    ELSE [num |-> CopZero, den |-> com_vc_usd.den]

\* tarifa_neta with the discount added in place of subtracted
TarifaNeta_PlusDiscount(x) == x.tarifa_sv_usd * (100 + x.desc_sv)

\* tarifa_neta = tarifa_sv_usd * (1.0 - desc_sv), in hundredths of a USD
TarifaNeta(x) == x.tarifa_sv_usd * (100 - x.desc_sv)

\* puntos_vc counting every B2B sale, also those above the units sold
PuntosVc_NoCap(vc_b2b, total_vc_units) ==
    (total_vc_units - vc_b2b) * 20 + vc_b2b * 30

\* b2b = min(vc_b2b, total_vc_units); puntos_vc = (total - b2b) * 20 + b2b * 30
PuntosVc(vc_b2b, total_vc_units) ==
    LET b2b == IF vc_b2b <= total_vc_units THEN vc_b2b ELSE total_vc_units
    IN  (total_vc_units - b2b) * 20 + b2b * 30

calc_month(role, x, trm) ==
    LET \* ---------- SV ----------
        pct_sv      == pct_sv_por_unidades(role, x.sv_units)
        tarifa_neta == TarifaNeta(x)
        com_sv_usd  == x.sv_units * tarifa_neta * pct_sv
        varados_pay_usd == x.varados_to_fact * CONSULTOR_VARADOS_USD[role]
        \* ---------- VIVECASA ----------
        total_vc_units == x.vc_a + x.vc_aa + x.vc_aaa
        bracket == vivecasa_bracket(total_vc_units)
        pct_a   == VivecasaPctGet("A", bracket)
        pct_aa  == VivecasaPctGet("AA", bracket)
        pct_aaa == VivecasaPctGet("AAA", bracket)
        com_vc_cop ==
            CopAdd(CopAdd(CopProduct(x.vc_a, x.v_a, pct_a),
                          CopProduct(x.vc_aa, x.v_aa, pct_aa)),
                   CopProduct(x.vc_aaa, x.v_aaa, pct_aaa))
        com_vc_usd ==
            IF trm > 0 THEN [num |-> com_vc_cop, den |-> trm]
            ELSE [num |-> CopZero, den |-> 1]
        anticipo_total_usd ==
              x.vc_a   * anticipo_usd_por_inmueble([w |-> x.v_a,   h |-> FALSE])
            + x.vc_aa  * anticipo_usd_por_inmueble([w |-> x.v_aa,  h |-> FALSE])
            + x.vc_aaa * anticipo_usd_por_inmueble([w |-> x.v_aaa, h |-> FALSE])
        saldo_vc_usd == SaldoVc(com_vc_usd, anticipo_total_usd)
        bolivar_usd  == bono_bolivar_usd(x.vc_bolivar)
        \* ---------- PUNTOS ----------
        puntos_sv == x.sv_asignados * 10 + x.sv_propios * 15
        puntos_vc == PuntosVc(x.vc_b2b, total_vc_units)
        puntos_mes == puntos_sv + puntos_vc
        \* ---------- TOTAL MES ----------
        total_mes_usd ==
            [usd4 |-> com_sv_usd
                        + (varados_pay_usd + anticipo_total_usd + bolivar_usd) * 10000,
             num  |-> saldo_vc_usd.num,
             den  |-> saldo_vc_usd.den]
    IN  [pct_sv          |-> pct_sv,
         tarifa_sv_neta  |-> tarifa_neta,
         com_sv_usd      |-> com_sv_usd,
         varados_usd     |-> varados_pay_usd,
         com_vc_cop      |-> com_vc_cop,
         com_vc_usd      |-> com_vc_usd,
         anticipo_vc_usd |-> anticipo_total_usd,
         saldo_vc_usd    |-> saldo_vc_usd,
         bolivar_usd     |-> bolivar_usd,
         puntos_mes      |-> puntos_mes,
         total_mes_usd   |-> total_mes_usd,
         bracket_vc      |-> bracket]

-----------------------------------------------------------------------------
(* The operations simulator as a state machine *)

NoResult == [k \in {} |-> 0]

\* a float: whole + 1/2 if half.  The halves stand for the non-whole values
\* a float input can take.
Valor(whole, half) == [w |-> whole, h |-> half]

-----------------------------------------------------------------------------
(* The widgets of the commercial simulator and the inputs explored *)

\* the keys of the dict month_input_block returns
MonthKeys ==
    {"sv_units", "tarifa_sv_usd", "desc_sv", "sv_asignados", "sv_propios",
     "varados_to_fact", "vc_a", "vc_aa", "vc_aaa", "v_a", "v_aa", "v_aaa",
     "vc_bolivar", "vc_b2b"}

MonthPrefixes == {"m1", "m2", "m3"}

\* every widget: <<"com", ...>> for role, TRM, the repeat option and the two
\* flags, <<prefix, key>> for the widgets of a month block
ComWidgets ==
    { <<"com", k>> : k \in {"role", "trm", "rep3", "crea_ok", "efec_ok"} }
        \cup (MonthPrefixes \X MonthKeys)

\* the value each widget is created with
ComDefault(wd) ==
    CASE wd = <<"com", "role">> -> "Consultor - Aprendiz"
      [] wd = <<"com", "trm">> -> 4000
      [] wd \in {<<"com", "rep3">>, <<"com", "crea_ok">>, <<"com", "efec_ok">>} -> TRUE
      [] wd[2] = "tarifa_sv_usd" -> 500
      [] OTHER -> 0

ComDefaults == [wd \in ComWidgets |-> ComDefault(wd)]

\* the values explored for a widget
ComValues(wd) ==
    CASE wd = <<"com", "role">> -> ConsultorRoles
      [] wd = <<"com", "trm">> -> {1, 4000, 4050}
      [] wd \in {<<"com", "rep3">>, <<"com", "crea_ok">>, <<"com", "efec_ok">>} -> BOOLEAN
      [] wd[2] = "sv_units" -> 0..(15 + MaxOver)
      [] wd[2] = "tarifa_sv_usd" -> {0, 500, 510}
      [] wd[2] = "desc_sv" -> {0, 1, 50}
      [] wd[2] = "sv_propios" -> (0..MaxUnits) \cup {6, 9}
      [] wd[2] \in {"v_a", "v_aa", "v_aaa"} ->
            {0, 89999999, 270000000, 270000001, 600000001}
      [] OTHER -> 0..MaxUnits

\* the widgets explored together: the others stay at their defaults
FocusGroups ==
    { {<<"com", "role">>, <<"m1", "sv_units">>, <<"m1", "tarifa_sv_usd">>, <<"m1", "desc_sv">>},
      {<<"com", "trm">>, <<"m1", "vc_a">>, <<"m1", "vc_aa">>, <<"m1", "v_a">>, <<"m1", "v_aa">>,
       <<"m1", "vc_bolivar">>},
      {<<"m1", "sv_asignados">>, <<"m1", "sv_propios">>, <<"m1", "vc_a">>, <<"m1", "vc_aaa">>,
       <<"m1", "vc_b2b">>, <<"m1", "varados_to_fact">>},
      {<<"com", "role">>, <<"com", "rep3">>, <<"com", "crea_ok">>, <<"com", "efec_ok">>,
       <<"m1", "sv_propios">>, <<"m2", "sv_propios">>, <<"m3", "sv_propios">>} }

FocusWidgets == UNION FocusGroups

\* the widgets that are away from their defaults
Away(w) == {wd \in FocusWidgets : w[wd] # ComDefault(wd)}

\* month_input_block(prefix)
month_input_block(w, prefix) == [k \in MonthKeys |-> w[<<prefix, k>>]]

IdleCom ==
    /\ com_w = ComDefaults
    /\ com_calc = FALSE
    /\ com_out = NoResult

-----------------------------------------------------------------------------
(* Initial states *)

InitOp ==
    /\ op_cargo = "GestorUPF"
    /\ op_x = DefaultInputs("GestorUPF")
    /\ op_calc = FALSE
    /\ op_gate_ok = TRUE
    /\ op_res = NoResult
    /\ op_failed_before = FALSE

\* no lookup under study
IdleLookup ==
    /\ lk_fn = "none"
    /\ lk_role = "Consultor - Aprendiz"
    /\ lk_n1 = 0
    /\ lk_n2 = 0
    /\ lk_flags = <<TRUE, TRUE>>
    /\ lk_v1 = Valor(0, FALSE)
    /\ lk_v2 = Valor(0, FALSE)
    /\ lk_done = FALSE
    /\ lk_r1 = 0
    /\ lk_r2 = 0

Init == InitOp /\ IdleLookup /\ IdleCom

\* the user picks another role: its widgets appear with their defaults
SelectCargo ==
    \E cargo \in Cargos :
        /\ cargo # op_cargo
        /\ op_cargo' = cargo
        /\ op_x' = DefaultInputs(cargo)
        /\ op_calc' = FALSE
        /\ op_gate_ok' = TRUE
        /\ op_res' = NoResult
        /\ op_failed_before' = FALSE
        /\ UNCHANGED <<lk_vars, com_vars>>

\* the user changes one widget: the script reruns with the button not pressed
SetInput ==
    \E key \in InputKeys(op_cargo) :
        \E v \in InputValues(op_cargo, key) :
            /\ v # op_x[key]
            /\ op_x' = [op_x EXCEPT ![key] = v]
            /\ op_calc' = FALSE
            /\ op_gate_ok' = TRUE
            /\ op_res' = NoResult
            /\ UNCHANGED <<op_cargo, op_failed_before, lk_vars, com_vars>>

\* the user presses "Calcular (Operaciones)"
CalcularOperaciones ==
    /\ op_calc' = TRUE
    /\ op_gate_ok' = SIM_ROLES_OP_gate(op_cargo, op_x)
    /\ op_res' = Evaluate(op_cargo, op_x)
    /\ op_failed_before' = (op_failed_before \/ ~SIM_ROLES_OP_gate(op_cargo, op_x))
    /\ UNCHANGED <<op_cargo, op_x, lk_vars, com_vars>>

Next == SelectCargo \/ SetInput \/ CalcularOperaciones

Spec == Init /\ [][Next]_vars

-----------------------------------------------------------------------------
(* The lookups applied to pairs of keys around their breaks *)

\* the unit counts explored for a role: around each end of each range
UnitKeys(role) ==
    LET table == CONSULTOR_SV_PCTS[role]
    IN  {0} \cup UNION { ((table[i][1] - 1)..(table[i][1] + MaxOver))
                            \cup ((table[i][2] - 1)..(table[i][2] + MaxOver)) :
                         i \in DOMAIN table }

\* the point totals explored: around the breaks of the three bonus tables
PointKeys ==
    {0} \cup UNION { (t - 1)..(t + MaxOver) : t \in {250, 350, 400, 490} }

\* the property values explored: around the ends of the four bands
ValorKeys ==
    { Valor(w, h) : w \in {0, 1} \cup UNION { (t - 1)..(t + MaxOver) :
                                   t \in {90000000, 270000000, 480000000, 600000000} },
                    h \in BOOLEAN }

\* the totals of property units explored: around the ends of the brackets
TotalUnitKeys == 0..(4 + MaxOver)

\* a role name outside the three tiers, as bono_trimestral_consultor accepts
UnknownRole == "Consultor - Otro"

\* v1 <= v2 for two floats given as whole + half
ValorLe(v1, v2) == v1.w < v2.w \/ (v1.w = v2.w /\ (v2.h \/ ~v1.h))

\* the arguments of one lookup, drawn around the breaks of its table
LookupArgs ==
    /\ lk_done = FALSE
    /\ lk_r1 = 0
    /\ lk_r2 = 0
    /\ \/ /\ lk_fn = "pct"
          /\ lk_role \in ConsultorRoles
          /\ \E n1 \in UnitKeys(lk_role), n2 \in UnitKeys(lk_role) :
                n1 <= n2 /\ lk_n1 = n1 /\ lk_n2 = n2
          /\ lk_flags = <<TRUE, TRUE>>
          /\ lk_v1 = Valor(0, FALSE)
          /\ lk_v2 = Valor(0, FALSE)
       \/ /\ lk_fn = "bono"
          /\ lk_role \in ConsultorRoles \cup {UnknownRole}
          /\ \E n1 \in PointKeys, n2 \in PointKeys :
                n1 <= n2 /\ lk_n1 = n1 /\ lk_n2 = n2
          /\ lk_flags \in BOOLEAN \X BOOLEAN
          /\ lk_v1 = Valor(0, FALSE)
          /\ lk_v2 = Valor(0, FALSE)
       \/ /\ lk_fn = "anticipo"
          /\ lk_role = "Consultor - Aprendiz"
          /\ lk_n1 = 0
          /\ lk_n2 = 0
          /\ lk_flags = <<TRUE, TRUE>>
          /\ \E v1 \in ValorKeys, v2 \in ValorKeys :
                ValorLe(v1, v2) /\ lk_v1 = v1 /\ lk_v2 = v2
       \/ /\ lk_fn = "vivecasa"
          /\ lk_role = "Consultor - Aprendiz"
          /\ \E n1 \in TotalUnitKeys, n2 \in TotalUnitKeys :
                n1 <= n2 /\ lk_n1 = n1 /\ lk_n2 = n2
          /\ lk_flags = <<TRUE, TRUE>>
          /\ lk_v1 = Valor(0, FALSE)
          /\ lk_v2 = Valor(0, FALSE)

LookupPct ==
    /\ lk_fn = "pct"
    /\ lk_done' = TRUE
    /\ lk_r1' = pct_sv_por_unidades(lk_role, lk_n1)
    /\ lk_r2' = pct_sv_por_unidades(lk_role, lk_n2)
    /\ UNCHANGED <<lk_fn, lk_role, lk_n1, lk_n2, lk_flags, lk_v1, lk_v2, op_vars, com_vars>>

LookupBono ==
    /\ lk_fn = "bono"
    /\ lk_done' = TRUE
    /\ lk_r1' = bono_trimestral_consultor(lk_role, lk_n1, lk_flags[1], lk_flags[2])
    /\ lk_r2' = bono_trimestral_consultor(lk_role, lk_n2, lk_flags[1], lk_flags[2])
    /\ UNCHANGED <<lk_fn, lk_role, lk_n1, lk_n2, lk_flags, lk_v1, lk_v2, op_vars, com_vars>>

LookupAnticipo ==
    /\ lk_fn = "anticipo"
    /\ lk_done' = TRUE
    /\ lk_r1' = anticipo_usd_por_inmueble(lk_v1)
    /\ lk_r2' = anticipo_usd_por_inmueble(lk_v2)
    /\ UNCHANGED <<lk_fn, lk_role, lk_n1, lk_n2, lk_flags, lk_v1, lk_v2, op_vars, com_vars>>

LookupVivecasa ==
    /\ lk_fn = "vivecasa"
    /\ lk_done' = TRUE
    /\ lk_r1' = VivecasaPcts(lk_n1)
    /\ lk_r2' = VivecasaPcts(lk_n2)
    /\ UNCHANGED <<lk_fn, lk_role, lk_n1, lk_n2, lk_flags, lk_v1, lk_v2, op_vars, com_vars>>

NextLookup == LookupPct \/ LookupBono \/ LookupAnticipo \/ LookupVivecasa

InitLookup == InitOp /\ LookupArgs /\ IdleCom

SpecLookup == InitLookup /\ [][NextLookup]_vars

-----------------------------------------------------------------------------
(* The commercial simulator as a state machine *)

\* the user changes one widget of a group, the widgets outside the group being
\* at their defaults (month 2 and 3 have widgets only with the repeat option
\* off; switching it on drops them); the script reruns, button not pressed
SetComInput ==
    \E G \in FocusGroups :
        /\ Away(com_w) \subseteq G
        /\ \E wd \in G :
            \E v \in ComValues(wd) :
                /\ v # com_w[wd]
                /\ wd[1] \in {"m2", "m3"} => ~com_w[<<"com", "rep3">>]
                /\ com_w' = IF wd = <<"com", "rep3">> /\ v
                            THEN [u \in ComWidgets |->
                                    IF u[1] \in {"m2", "m3"} THEN ComDefault(u)
                                    ELSE IF u = wd THEN v ELSE com_w[u]]
                            ELSE [com_w EXCEPT ![wd] = v]
                /\ com_calc' = FALSE
                /\ com_out' = NoResult
                /\ UNCHANGED <<op_vars, lk_vars>>

\* puntos_trim taken from the first month alone
PuntosTrim_Month1(r1, r2, r3) == r1.puntos_mes

\* puntos_trim = int(r1["puntos_mes"] + r2["puntos_mes"] + r3["puntos_mes"])
PuntosTrim(r1, r2, r3) == r1.puntos_mes + r2.puntos_mes + r3.puntos_mes

\* build_simulador_comercial: the body of the "Calcular (Comercial)" button
CalcularComercialResult(w) ==
    LET role == w[<<"com", "role">>]
        trm  == w[<<"com", "trm">>]
        mes1 == month_input_block(w, "m1")
        mes2 == IF ~w[<<"com", "rep3">>] THEN month_input_block(w, "m2") ELSE mes1
        mes3 == IF ~w[<<"com", "rep3">>] THEN month_input_block(w, "m3") ELSE mes1
        r1 == calc_month(role, mes1, trm)
        r2 == calc_month(role, mes2, trm)
        r3 == calc_month(role, mes3, trm)
        puntos_trim == PuntosTrim(r1, r2, r3)
        bono_trim_usd ==
            bono_trimestral_consultor(role, puntos_trim,
                                      w[<<"com", "crea_ok">>], w[<<"com", "efec_ok">>])
        total_trim_usd ==
            [usd4 |-> r1.total_mes_usd.usd4 + r2.total_mes_usd.usd4
                        + r3.total_mes_usd.usd4 + bono_trim_usd * 10000,
             num  |-> CopAdd(CopAdd(r1.total_mes_usd.num, r2.total_mes_usd.num),
                             r3.total_mes_usd.num),
             den  |-> trm]
    IN  [r1 |-> r1, r2 |-> r2, r3 |-> r3,
         puntos_trim |-> puntos_trim,
         bono_trim_usd |-> bono_trim_usd,
         total_trim_usd |-> total_trim_usd]

CalcularComercial ==
    /\ com_calc' = TRUE
    /\ com_out' = CalcularComercialResult(com_w)
    /\ UNCHANGED <<com_w, op_vars, lk_vars>>

NextCom == SetComInput \/ CalcularComercial

InitCom == InitOp /\ IdleLookup /\ IdleCom

SpecCom == InitCom /\ [][NextCom]_vars

-----------------------------------------------------------------------------
(* Claims on the operations simulator, checked under Spec *)

\* the raw result of the role's formula on the inputs of the current run
OpRaw == SIM_ROLES_OP_calc(op_cargo, op_x)

\* the run is one whose gate failed
OpGateFailed == op_calc /\ ~op_gate_ok

\* C1: when the gate of the role is false and its scope is "all", every payout
\* line whose name does not begin with "fijo" (any case) is 0 in the result and
\* every line whose name does begin with it keeps its raw value.
C1_GateAllZeroesNonFixed ==
    (OpGateFailed /\ SIM_ROLES_OP_gate_scope(op_cargo) = "all") =>
        \A k \in DOMAIN OpRaw :
            op_res[k] = IF StartsWithFijo(k) THEN OpRaw[k] ELSE 0

\* a failed gate of scope "all" has zeroed a bonus line that was earned
C1_Witness ==
    /\ OpGateFailed
    /\ SIM_ROLES_OP_gate_scope(op_cargo) = "all"
    /\ OpRaw["Comision mensual"] > 0
    /\ "Bono trimestral" \in DOMAIN OpRaw
    /\ OpRaw["Bono trimestral"] = 500000
    /\ op_res["Bono trimestral"] = 0
    /\ op_res["Comision mensual"] = 0

\* C2: when the gate is false, the scope is "desem_only" and the raw result has
\* the line "Comision desembolsos", that line is 0 in the result and every other
\* line keeps its raw value.
C2_DesemOnlyZeroesOneLine ==
    ( /\ OpGateFailed
      /\ SIM_ROLES_OP_gate_scope(op_cargo) = "desem_only"
      /\ "Comision desembolsos" \in DOMAIN OpRaw ) =>
        /\ op_res["Comision desembolsos"] = 0
        /\ \A k \in DOMAIN OpRaw \ {"Comision desembolsos"} : op_res[k] = OpRaw[k]

\* Analista de Legalizacion failed the gate with both lines earned
C2_Witness ==
    /\ OpGateFailed
    /\ op_cargo = "AnalistaLegal"
    /\ OpRaw["Comision desembolsos"] > 0
    /\ op_res["Comision desembolsos"] = 0
    /\ op_res["Actualizaciones"] = 80000

\* C3: the result of an evaluation has a line "Total estimado" equal to the sum
\* of the other lines as they stand after gating.
C3_TotalIsSumAfterGating ==
    op_calc =>
        /\ "Total estimado" \in DOMAIN op_res
        /\ DOMAIN op_res = DOMAIN OpRaw \cup {"Total estimado"}
        /\ op_res["Total estimado"] = SumOver(op_res, DOMAIN op_res \ {"Total estimado"})

\* a failed gate zeroed a line, and the total is less than the raw sum
C3_Witness ==
    /\ OpGateFailed
    /\ op_res["Total estimado"] = 80000
    /\ SumOver(OpRaw, DOMAIN OpRaw) > 80000

\* the free-unit allowance of a role: <<count input, line, minimum, unit rate>>
Allowance ==
    [ GestorUPF     |-> <<"aprob_mes", "Comision mensual", 4, 125000>>,
      GestorConv    |-> <<"aprob_mes", "Comision mensual", 10, 125000>>,
      GestorFNA     |-> <<"aprob_mes", "Comision mensual", 0, 125000>>,
      GestorNueva   |-> <<"aprob_mes", "Comision mensual", 15, 125000>>,
      AnalistaII    |-> <<"aprob_mes", "Comision mensual", 40, 25000>>,
      AnalistaIII   |-> <<"aprob_mes", "Comision mensual", 60, 25000>>,
      LiderAnalisis |-> <<"aprob_mes", "Comision mensual", 350, 10000>>,
      AnalistaLegal |-> <<"desem_mes", "Comision desembolsos", 20, 75000>>,
      LiderDesem    |-> <<"desem_mes", "Comision mensual", 250, 10000>> ]

\* what C4 says the commission is for n units
ExpectedCommission(n, minimo, rate) ==
    IF n <= minimo THEN 0 ELSE (n - minimo) * rate

\* C4: for a role with a free-unit allowance the commission line of the formula
\* is 0 up to the minimum and (n - minimum) * unit_rate above it; for
\* Gestor de Credito - FNA (no allowance) it is n * unit_rate.  The result of a
\* run whose gate passed shows that amount.
C4_CommissionAboveAllowance ==
    op_cargo \in DOMAIN Allowance =>
        LET a == Allowance[op_cargo]
            n == op_x[a[1]]
        IN  /\ OpRaw[a[2]] = ExpectedCommission(n, a[3], a[4])
            /\ (op_calc /\ op_gate_ok) => op_res[a[2]] = ExpectedCommission(n, a[3], a[4])

\* a run with two units above the minimum of 4 showed twice the unit rate
C4_Witness ==
    /\ op_calc /\ op_gate_ok
    /\ op_cargo = "GestorUPF"
    /\ op_x["aprob_mes"] = 6
    /\ op_res["Comision mensual"] = 250000

-----------------------------------------------------------------------------
(* Claims on the lookups, checked under SpecLookup *)

BonoDone == lk_fn = "bono" /\ lk_done

PctDone == lk_fn = "pct" /\ lk_done

AnticipoDone == lk_fn = "anticipo" /\ lk_done

BothFlags == lk_flags[1] /\ lk_flags[2]

\* C5: for each consultant tier and every point total the quarterly bonus is 0
\* when the creation flag or the effective-count flag is false; a bonus other
\* than 0 is paid only with both flags true.
C5_BonusNeedsBothFlags ==
    BonoDone =>
        /\ ~BothFlags => (lk_r1 = 0 /\ lk_r2 = 0)
        /\ (lk_r1 # 0 \/ lk_r2 # 0) => BothFlags

\* a point total in the upper bracket got no bonus because one flag is false
C5_Witness ==
    /\ BonoDone
    /\ lk_flags = <<TRUE, FALSE>>
    /\ lk_role = "Consultor - Experto"
    /\ lk_n2 = 491
    /\ lk_r2 = 0

\* what C6 says the Apprentice bonus is
AprendizBonus(p) == IF p < 250 THEN 0 ELSE IF p <= 350 THEN 1500 ELSE 1800

\* C6: with both flags true the Apprentice bonus is 0 below 250 points, 1500 for
\* 250..350 and 1800 from 351 on; 249 gives 0, 350 gives 1500, 351 gives 1800.
C6_AprendizBrackets ==
    (BonoDone /\ BothFlags /\ lk_role = "Consultor - Aprendiz") =>
        /\ lk_r1 = AprendizBonus(lk_n1)
        /\ lk_r2 = AprendizBonus(lk_n2)
        /\ lk_n1 = 249 => lk_r1 = 0
        /\ lk_n1 = 350 => lk_r1 = 1500
        /\ lk_n2 = 351 => lk_r2 = 1800

\* 350 and 351 points looked up side by side
C6_Witness ==
    /\ BonoDone /\ BothFlags /\ lk_role = "Consultor - Aprendiz"
    /\ lk_n1 = 350 /\ lk_r1 = 1500
    /\ lk_n2 = 351 /\ lk_r2 = 1800

\* C7 as stated: a property value of exactly 270,000,000 yields an advance of 420
C7_Original ==
    (AnticipoDone /\ lk_v1 = Valor(270000000, FALSE)) => lk_r1 = 420

\* C7 (amended): a property value of exactly 270,000,000 yields an advance of
\* 220, the rate of the first band, whose upper bound is inclusive.
C7_Exactly270MPays220 ==
    /\ (AnticipoDone /\ lk_v1 = Valor(270000000, FALSE)) => lk_r1 = 220
    /\ (AnticipoDone /\ lk_v2 = Valor(270000000, FALSE)) => lk_r2 = 220

\* 270,000,000 and 270,000,001 looked up side by side
C7_Witness ==
    /\ AnticipoDone
    /\ lk_v1 = Valor(270000000, FALSE) /\ lk_r1 = 220
    /\ lk_v2 = Valor(270000001, FALSE) /\ lk_r2 = 420

\* what C8 says the advance is for a whole value v
ExpectedAnticipo(v) ==
    IF v < 90000000 THEN 0
    ELSE IF v <= 270000000 THEN 220
    ELSE IF v <= 480000000 THEN 420
    ELSE IF v <= 600000000 THEN 650
    ELSE 950

\* C8: for every whole property value v the advance is 220 on
\* [90,000,000, 270,000,000], 420 on [270,000,001, 480,000,000], 650 on
\* [480,000,001, 600,000,000], 950 from 600,000,001 on and 0 below 90,000,000.
C8_AnticipoBands ==
    AnticipoDone =>
        /\ ~lk_v1.h => lk_r1 = ExpectedAnticipo(lk_v1.w)
        /\ ~lk_v2.h => lk_r2 = ExpectedAnticipo(lk_v2.w)

\* the lower bounds of the third and fourth band got the rate of their band
C8_Witness ==
    /\ AnticipoDone
    /\ lk_v1 = Valor(480000001, FALSE) /\ lk_r1 = 650
    /\ lk_v2 = Valor(600000001, FALSE) /\ lk_r2 = 950

\* C9: every bracket lookup is non-decreasing in its key within one role's
\* table: pct_sv_por_unidades for unit counts n1 <= n2, and
\* bono_trimestral_consultor with both flags true for point totals p1 <= p2.
C9_LookupsMonotone ==
    /\ PctDone => lk_r1 <= lk_r2
    /\ (BonoDone /\ BothFlags) => lk_r1 <= lk_r2

-----------------------------------------------------------------------------
(* Claims on the commercial simulator, checked under SpecCom *)

\* the percentage of the bracket of the role's table that contains the count
BracketPct(role, units) ==
    LET table == CONSULTOR_SV_PCTS[role]
        S == {i \in DOMAIN table : table[i][1] <= units /\ units <= table[i][2]}
    IN  IF S = {} THEN 0 ELSE table[CHOOSE i \in S : TRUE][3]

\* the commission C10 states for a month's inputs, in ten-thousandths of a USD:
\* units * gross rate * (1 - discount) * pct
C10_Commission(role, x) ==
    x.sv_units * x.tarifa_sv_usd * (100 - x.desc_sv) * BracketPct(role, x.sv_units)

ComRole == com_w[<<"com", "role">>]

\* C10: for every consultant tier the monthly service-unit commission of
\* calc_month is units * gross rate * (1 - average discount) * pct, pct being the
\* percentage of the tier's bracket that contains the unit count; an Apprentice
\* with 5 units, a gross rate of 500 and no discount is in the 5-9 bracket (50%)
\* and gets 1250.
C10_SvCommission ==
    com_calc =>
        LET rep  == com_w[<<"com", "rep3">>]
            mes1 == month_input_block(com_w, "m1")
            mes2 == IF rep THEN mes1 ELSE month_input_block(com_w, "m2")
            mes3 == IF rep THEN mes1 ELSE month_input_block(com_w, "m3")
        IN  /\ com_out.r1.com_sv_usd = C10_Commission(ComRole, mes1)
            /\ com_out.r2.com_sv_usd = C10_Commission(ComRole, mes2)
            /\ com_out.r3.com_sv_usd = C10_Commission(ComRole, mes3)
            /\ ( /\ ComRole = "Consultor - Aprendiz"
                 /\ mes1.sv_units = 5
                 /\ mes1.tarifa_sv_usd = 500
                 /\ mes1.desc_sv = 0 ) =>
                    /\ com_out.r1.pct_sv = 50
                    /\ com_out.r1.com_sv_usd = 1250 * 10000

\* the scenario of C10 has been computed
C10_Witness ==
    /\ com_calc
    /\ ComRole = "Consultor - Aprendiz"
    /\ com_w[<<"m1", "sv_units">>] = 5
    /\ com_w[<<"m1", "tarifa_sv_usd">>] = 500
    /\ com_w[<<"m1", "desc_sv">>] = 0
    /\ com_out.r1.com_sv_usd = 12500000

-----------------------------------------------------------------------------
(* Claims on lookups that match no band, checked under SpecLookup *)

VivecasaDone == lk_fn = "vivecasa" /\ lk_done

\* no range of the role's CONSULTOR_SV_PCTS table holds the unit count
NoRangeHolds(role, units) ==
    \A i \in DOMAIN CONSULTOR_SV_PCTS[role] :
        ~(CONSULTOR_SV_PCTS[role][i][1] <= units /\ units <= CONSULTOR_SV_PCTS[role][i][2])

\* the lower break of a tier's quarterly bonus table
LowerBreak(role) ==
    CASE role = "Consultor - Aprendiz" -> 250
      [] role = "Consultor - Emprendedor" -> 350
      [] role = "Consultor - Experto" -> 400

NoPct == [A |-> 0, AA |-> 0, AAA |-> 0]

\* C11: a lookup that matches no band yields zero: pct_sv_por_unidades gives 0
\* for a unit count <= 0 and for a count inside no listed range;
\* a total of 0 property units gives a commission percentage of 0 for the three
\* categories; anticipo_usd_por_inmueble gives 0 for a value <= 0 and for a
\* value below 90,000,000; bono_trimestral_consultor gives 0 for points below
\* the tier's lower break and for a role outside the three tiers.
C11_UnmatchedPaysZero ==
    /\ PctDone =>
          \A p \in {<<lk_n1, lk_r1>>, <<lk_n2, lk_r2>>} :
              (p[1] <= 0 \/ NoRangeHolds(lk_role, p[1])) => p[2] = 0
    /\ VivecasaDone =>
          \A p \in {<<lk_n1, lk_r1>>, <<lk_n2, lk_r2>>} :
              p[1] = 0 => p[2] = NoPct
    /\ AnticipoDone =>
          \A p \in {<<lk_v1, lk_r1>>, <<lk_v2, lk_r2>>} :
              (FloatLeInt(p[1], 0) \/ p[1].w < 90000000) => p[2] = 0
    /\ BonoDone =>
          \A p \in {<<lk_n1, lk_r1>>, <<lk_n2, lk_r2>>} :
              (lk_role \notin ConsultorRoles \/ p[1] < LowerBreak(lk_role)) => p[2] = 0

\* no property units give no percentage, one unit gives the "1" percentages
C11_Witness ==
    /\ VivecasaDone
    /\ lk_n1 = 0 /\ lk_r1 = NoPct
    /\ lk_n2 = 1 /\ lk_r2 = [A |-> 52, AA |-> 79, AAA |-> 131]

\* more units than the last range of the table holds give no percentage
C11_WitnessAboveRanges ==
    PctDone /\ lk_n1 = 1000000000 /\ lk_r1 = 75 /\ lk_n2 = 1000000001 /\ lk_r2 = 0

\* a role outside the three tiers gets no bonus whatever the points
C11_WitnessUnknownRole ==
    BonoDone /\ lk_role = UnknownRole /\ BothFlags /\ lk_n2 >= 490 /\ lk_r2 = 0

-----------------------------------------------------------------------------
(* Claims on the consultant month and quarter, checked under SpecCom *)

\* the inputs of a month: those of month 1 for the three with the repeat option
ComMes(prefix) ==
    IF com_w[<<"com", "rep3">>] THEN month_input_block(com_w, "m1")
    ELSE month_input_block(com_w, prefix)

\* each month's inputs with its result
ComMonths ==
    { <<ComMes("m1"), com_out.r1>>, <<ComMes("m2"), com_out.r2>>,
      <<ComMes("m3"), com_out.r3>> }

\* C12: the points of a month are 10 * sv_asignados + 15 * sv_propios
\* + 20 * (T - b) + 30 * b with T = vc_a + vc_aa + vc_aaa and b the smaller of
\* vc_b2b and T; the property part lies between 20 * T and 30 * T, also when
\* vc_b2b is above T.
C12_MonthlyPoints ==
    com_calc =>
        \A m \in ComMonths :
            LET x  == m[1]
                T  == x.vc_a + x.vc_aa + x.vc_aaa
                b  == IF x.vc_b2b < T THEN x.vc_b2b ELSE T
                sv == 10 * x.sv_asignados + 15 * x.sv_propios
            IN  /\ m[2].puntos_mes = sv + 20 * (T - b) + 30 * b
                /\ 20 * T <= m[2].puntos_mes - sv
                /\ m[2].puntos_mes - sv <= 30 * T

\* more B2B sales entered than units sold: the two units count 30 each
C12_Witness ==
    /\ com_calc
    /\ com_w[<<"m1", "vc_a">>] = 1
    /\ com_w[<<"m1", "vc_aaa">>] = 1
    /\ com_w[<<"m1", "vc_b2b">>] = 3
    /\ com_w[<<"m1", "sv_asignados">>] = 1
    /\ com_out.r1.puntos_mes = 70

\* the points C12 gives for a month's inputs
MonthPoints(x) ==
    LET T == x.vc_a + x.vc_aa + x.vc_aaa
        b == IF x.vc_b2b < T THEN x.vc_b2b ELSE T
    IN  10 * x.sv_asignados + 15 * x.sv_propios + 20 * (T - b) + 30 * b

\* three times a COP amount
CopTriple(c) ==
    LET f == 3 * c.frac
    IN  [int |-> 3 * c.int + (f \div 10000), frac |-> f % 10000]

ComFlags == <<com_w[<<"com", "crea_ok">>], com_w[<<"com", "efec_ok">>]>>

\* C13: the quarterly bonus is looked up on the sum of the three months' points
\* and the quarterly total is the three monthly totals plus that bonus; with
\* the repeat option the points are 3 * month 1's and the total is 3 * month
\* 1's total plus the bonus.
C13_QuarterlyBonus ==
    com_calc =>
        LET r1 == com_out.r1
            r2 == com_out.r2
            r3 == com_out.r3
            p  == MonthPoints(ComMes("m1")) + MonthPoints(ComMes("m2"))
                    + MonthPoints(ComMes("m3"))
            bono == bono_trimestral_consultor(ComRole, p, ComFlags[1], ComFlags[2])
        IN  /\ com_out.puntos_trim = p
            /\ com_out.bono_trim_usd = bono
            /\ com_out.total_trim_usd.usd4 =
                  r1.total_mes_usd.usd4 + r2.total_mes_usd.usd4
                    + r3.total_mes_usd.usd4 + bono * 10000
            /\ com_out.total_trim_usd.num =
                  CopAdd(r1.total_mes_usd.num,
                         CopAdd(r2.total_mes_usd.num, r3.total_mes_usd.num))
            /\ com_out.total_trim_usd.den = r1.total_mes_usd.den
            /\ com_w[<<"com", "rep3">>] =>
                  /\ com_out.puntos_trim = 3 * MonthPoints(month_input_block(com_w, "m1"))
                  /\ com_out.total_trim_usd.usd4 = 3 * r1.total_mes_usd.usd4 + bono * 10000
                  /\ com_out.total_trim_usd.num = CopTriple(r1.total_mes_usd.num)

\* the repeat option on: an Apprentice's 90 points of month 1 count three times
\* and reach the 250-350 bracket
C13_Witness ==
    /\ com_calc
    /\ com_w[<<"com", "rep3">>]
    /\ ComRole = "Consultor - Aprendiz"
    /\ ComFlags = <<TRUE, TRUE>>
    /\ com_out.r1.puntos_mes = 90
    /\ com_out.puntos_trim = 270
    /\ com_out.bono_trim_usd = 1500
    /\ com_out.total_trim_usd.usd4 = 3 * com_out.r1.total_mes_usd.usd4 + 15000000

\* the repeat option off: three different months add up to the bracket
C13_WitnessThreeMonths ==
    /\ com_calc
    /\ ~com_w[<<"com", "rep3">>]
    /\ ComRole = "Consultor - Aprendiz"
    /\ ComFlags = <<TRUE, TRUE>>
    /\ com_out.r1.puntos_mes = 90
    /\ com_out.r2.puntos_mes = 135
    /\ com_out.r3.puntos_mes = 45
    /\ com_out.bono_trim_usd = 1500

\* the repeat option on with property sales: the balance due counts three times
C13_WitnessTriple ==
    /\ com_calc
    /\ com_w[<<"com", "rep3">>]
    /\ com_out.r1.total_mes_usd.num # CopZero
    /\ com_out.total_trim_usd.num = CopTriple(com_out.r1.total_mes_usd.num)

-----------------------------------------------------------------------------
(* Claims on sequences of evaluations *)

\* the result of the first evaluation of the role on the inputs: the raw lines
\* of its formula, gated, with their total
FirstEvaluation(cargo, x) ==
    LET raw   == SIM_ROLES_OP_calc(cargo, x)
        gated == ApplyGate(cargo, SIM_ROLES_OP_gate(cargo, x), raw)
    IN  gated @@ ("Total estimado" :> SumOver(gated, DOMAIN gated))

C14_WitnessMonths ==
    /\ com_calc
    /\ ~com_w[<<"com", "rep3">>]
    /\ com_out.r1.puntos_mes = 45
    /\ com_out.r2.puntos_mes = 90
    /\ com_out.r3.puntos_mes = 135

-----------------------------------------------------------------------------
(* Claims on what the formulas read, checked under Spec *)

\* the inputs the gate of a role reads
GateInputs(cargo) ==
    CASE cargo \in {"GestorUPF", "GestorConv", "GestorFNA", "GestorNueva"} ->
            {"garantia"}
      [] cargo \in {"AnalistaII", "AnalistaIII", "LiderAnalisis"} ->
            {"carpetas_3dias", "radicado_ok"}
      [] cargo \in {"AnalistaLegal", "LiderDesem"} ->
            {"monitoreo", "ans", "prod_notas"}
      [] OTHER -> {}

\* the input sets that differ from x in gate inputs only
GateVariants(cargo, x) ==
    LET G == GateInputs(cargo)
        F == { f \in [G -> UNION { InputValues(cargo, k) : k \in G }] :
                 \A k \in G : f[k] \in InputValues(cargo, k) }
    IN  { [k \in DOMAIN x |-> IF k \in G THEN f[k] ELSE x[k]] : f \in F }

\* C15: the raw lines the formula of a role computes do not depend on the
\* inputs its gate reads (garantia; carpetas_3dias, radicado_ok; monitoreo,
\* ans, prod_notas): two input sets that differ only in those give the same
\* raw lines.
C15_RawIgnoresGateInputs ==
    \A x2 \in GateVariants(op_cargo, op_x) :
        SIM_ROLES_OP_calc(op_cargo, x2) = OpRaw

\* an evaluation whose gate failed, of inputs that differ in a gate input only
\* from inputs whose gate passes, with the same paid raw line
C15_Witness ==
    /\ OpGateFailed
    /\ \E k \in DOMAIN OpRaw : OpRaw[k] > 0 /\ op_res[k] = 0
    /\ \E x2 \in GateVariants(op_cargo, op_x) :
          /\ x2 # op_x
          /\ SIM_ROLES_OP_gate(op_cargo, x2)
          /\ SIM_ROLES_OP_calc(op_cargo, x2) = OpRaw

-----------------------------------------------------------------------------
(* Claims on the advance and the balance due, checked under SpecCom *)

\* a <= b for two COP amounts
CopLe(a, b) == a.int < b.int \/ (a.int = b.int /\ a.frac <= b.frac)

\* C16: in every month the balance due is the larger of (converted property
\* commission - total advance) and 0, so it is never negative; the advance plus
\* the balance due is the larger of the converted commission and the advance;
\* the monthly total is at least the advance.  (Amounts over the TRM are
\* compared by their numerators: the advance a is a * den over den.)
C16_BalanceDue ==
    com_calc =>
        \A m \in ComMonths :
            LET r   == m[2]
                com == r.com_vc_usd
                bal == r.saldo_vc_usd
                adv == [int |-> r.anticipo_vc_usd * com.den, frac |-> 0]
            IN  /\ com.den > 0 /\ bal.den = com.den
                /\ CopLe(CopZero, bal.num)
                /\ IF CopLe(adv, com.num)
                   THEN CopAdd(bal.num, adv) = com.num
                   ELSE bal.num = CopZero
                /\ CopAdd(adv, bal.num) = (IF CopLe(adv, com.num) THEN com.num ELSE adv)
                /\ r.total_mes_usd.usd4 >= r.anticipo_vc_usd * 10000
                /\ r.total_mes_usd.den = com.den
                /\ CopLe(CopZero, r.total_mes_usd.num)

\* the advance is above the converted commission: nothing is left to pay
C16_Witness ==
    /\ com_calc
    /\ com_out.r1.com_vc_usd.num # CopZero
    /\ ~CopLe([int |-> com_out.r1.anticipo_vc_usd * com_out.r1.com_vc_usd.den, frac |-> 0],
              com_out.r1.com_vc_usd.num)
    /\ com_out.r1.saldo_vc_usd.num = CopZero
    /\ com_out.r1.total_mes_usd.usd4 >= com_out.r1.anticipo_vc_usd * 10000

\* the converted commission is above a paid advance: the rest is due
C16_WitnessBalance ==
    /\ com_calc
    /\ com_out.r1.anticipo_vc_usd > 0
    /\ com_out.r1.saldo_vc_usd.num # CopZero
    /\ com_w[<<"com", "trm">>] = 4000

-----------------------------------------------------------------------------
(* Claims on property values that are not whole, checked under SpecLookup *)

\* C17: for every property value v >= 90,000,000 the float input can give,
\* whole or not (270,000,000.5 for one), anticipo_usd_por_inmueble returns an
\* advance above 0, and the advance does not decrease as v grows: no value at
\* or above the floor of the lowest band pays 0.
C17_NoGapBetweenBands ==
    AnticipoDone =>
        /\ IntLeFloat(90000000, lk_v1) => lk_r1 > 0
        /\ IntLeFloat(90000000, lk_v2) => lk_r2 > 0
        /\ IntLeFloat(90000000, lk_v1) => lk_r1 <= lk_r2

\* 270,000,000 pays 220 and 270,000,000.5 has been looked up beside it
C17_GapReached ==
    /\ AnticipoDone
    /\ lk_v1 = Valor(270000000, FALSE) /\ lk_r1 = 220
    /\ lk_v2 = Valor(270000000, TRUE)  /\ lk_r2 = 0

=============================================================================
